---- MODULE Spec2Model ----
(***************************************************************************)
(* The session / event state machines of the LangGraph-Agent front ends:   *)
(*   ToolAssistant      src/unnamed/part_000                               *)
(*   ToolAssistantV1    src/static/tool/script.js, lines 1-288             *)
(*   HumanLoopApp       src/unnamed/part_001, lines 1-544  (inline reply)  *)
(*   HumanLoopPanel     src/unnamed/part_001, lines 546-935 (panel reply;  *)
(*                      the class is also named HumanLoopApp)              *)
(*   CustomizeStateApp  src/static/tool/script.js, lines 305-901           *)
(*   ChatApp            src/static/chat/chat.js                            *)
(* One page runs one controller; Init picks it.  JavaScript is single      *)
(* threaded: every user action and every EventSource callback is one       *)
(* atomic step.  A handler is written as an operator from the state        *)
(* record before it to the state record after it.                          *)
(***************************************************************************)
EXTENDS Integers, Sequences, FiniteSets, TLC

VARIABLES app, threadId, now, isProcessing, isWaitingForHumanInput,
          currentEventSource, currentAssistantMessage, currentContent,
          aiResponseContainer, currentIntervention, sendButtonDisabled,
          inputDisabled, sendText, status, notification, panelShown,
          es, elems, doc, pending, steps, last, hist

vars == <<app, threadId, now, isProcessing, isWaitingForHumanInput,
          currentEventSource, currentAssistantMessage, currentContent,
          aiResponseContainer, currentIntervention, sendButtonDisabled,
          inputDisabled, sendText, status, notification, panelShown,
          es, elems, doc, pending, steps, last, hist>>

\* ------------------------------------------------------------------ bounds
\* Every behaviour of at most MaxSteps user actions and transport callbacks
\* is explored.
MaxSteps == 6

\* Under the fair specification every behaviour of at most MaxFairSteps user
\* actions and transport callbacks, and the ends of its streams, is explored.
MaxFairSteps == 4

\* ------------------------------------------------------------- the inputs
Apps == {"ToolAssistant", "ToolAssistantV1", "HumanLoopApp", "HumanLoopPanel",
         "CustomizeStateApp", "ChatApp"}

\* What the trimmed input box can hold: nothing, or a text.
Inputs == {"", "q"}

Frags == {"a", "b"}

\* The random suffixes Math.random() can give a thread id.
Rnd == {1, 2}

\* The frame types a controller's handlers name.
Handled(a) ==
    CASE a = "ToolAssistant" ->
           {"start", "ai_decision", "tool_call", "tool_result", "content", "end", "error"}
      [] a = "ToolAssistantV1" ->
           {"tool_status", "tool_call", "content", "complete", "error"}
      [] a = "HumanLoopApp" ->
           {"start", "content", "ai_decision", "tool_call", "tool_result", "end",
            "intervention_required", "error"}
      [] a = "HumanLoopPanel" ->
           {"start", "content", "ai_decision", "tool_call", "tool_result", "end",
            "intervention_required", "error"}
      [] a = "CustomizeStateApp" ->
           {"start", "content", "ai_decision", "tool_running", "tool_call",
            "tool_result", "intervention_required", "end", "error"}
      [] OTHER -> {"start", "content", "metadata", "end", "error"}

\* What a server can push to controller a: every frame it handles, "ping" (a
\* well-formed frame whose type no handler knows) and "malformed" (a payload
\* JSON.parse rejects).
Events(a) ==
    [type : (Handled(a) \cup {"ping", "malformed"}) \ {"content"}, content : {"x"}]
    \cup [type : {"content"}, content : Frags]

\* ------------------------------------------------------------------ the DOM
\* An element is a record [role, kids, disabled]; its id is its index in elems.
\* A child node is [t, v, id]: t its class, v its text, id the element it wraps.
Node(t, v, id) == [t |-> t, v |-> v, id |-> id]

Thinking == Node("thinking", <<>>, 0)

\* marked.parse(content): the empty text renders to nothing.
Md(content) == IF content = <<>> THEN <<>> ELSE <<Node("md", content, 0)>>

ErrorP(msg) == <<Node("error-message", <<msg>>, 0)>>

\* document.createElement: the new element's id is its index in elems.
NewId(s) == Len(s.elems) + 1

CreateElement(s, role, kids) ==
    [s EXCEPT !.elems = Append(@, [role |-> role, kids |-> kids, disabled |-> FALSE])]

AppendChild(s, parent, node) ==
    [s EXCEPT !.elems[parent].kids = Append(@, node)]

SetInnerHTML(s, el, kids) == [s EXCEPT !.elems[el].kids = kids]

RemoveFromDoc(s, el) ==
    [s EXCEPT !.doc = SelectSeq(@, LAMBDA m : m # el)]

\* contentDiv.querySelector('.ai-decision-info, .tool-call-info, .tool-result-info')
HasToolInfo(s, el) ==
    \E i \in 1..Len(s.elems[el].kids) :
        s.elems[el].kids[i].t \in {"ai-decision-info", "tool-call-info", "tool-result-info"}

\* contentDiv.innerHTML.includes('正在思考...')
HasThinking(s, el) ==
    \E i \in 1..Len(s.elems[el].kids) : s.elems[el].kids[i].t = "thinking"

\* ------------------------------------------------------------ the transports
\* One EventSource: its readyState, the request it made, and the variables its
\* handlers close over.
NewTransport(kind, url, msg, cdiv, buf) ==
    [open |-> TRUE, kind |-> kind, url |-> url, assistantMsg |-> msg,
     contentDiv |-> cdiv, contentBuf |-> buf, hasContent |-> FALSE]

Url(ep, thread, message, response, correct, name, birthday) ==
    [ep |-> ep, thread_id |-> thread, message |-> message, response |-> response,
     correct |-> correct, name |-> name, birthday |-> birthday]

OpenEventSource(s, tr) == [s EXCEPT !.es = Append(@, tr)]

\* An EventSource that is never closed.
Close_leaveOpen(s, t) == s

\* EventSource.close(): no handler of a closed source runs again, so what its
\* handlers closed over is dropped with it.
Close(s, t) ==
    IF t = 0 THEN s
    ELSE [s EXCEPT !.es[t].open = FALSE, !.es[t].assistantMsg = 0,
                   !.es[t].contentDiv = 0, !.es[t].contentBuf = <<>>,
                   !.es[t].hasContent = FALSE]

OpenTransports(s) == {t \in 1..Len(s.es) : s.es[t].open}

\* -------------------------------------------------------------- the state
S == [app |-> app, threadId |-> threadId, now |-> now, isProcessing |-> isProcessing,
      isWaitingForHumanInput |-> isWaitingForHumanInput,
      currentEventSource |-> currentEventSource,
      currentAssistantMessage |-> currentAssistantMessage,
      currentContent |-> currentContent, aiResponseContainer |-> aiResponseContainer,
      currentIntervention |-> currentIntervention,
      sendButtonDisabled |-> sendButtonDisabled, inputDisabled |-> inputDisabled,
      sendText |-> sendText, status |-> status, notification |-> notification,
      panelShown |-> panelShown, es |-> es, elems |-> elems, doc |-> doc,
      pending |-> pending]

Becomes(n) ==
    /\ app' = n.app
    /\ threadId' = n.threadId
    /\ now' = n.now
    /\ isProcessing' = n.isProcessing
    /\ isWaitingForHumanInput' = n.isWaitingForHumanInput
    /\ currentEventSource' = n.currentEventSource
    /\ currentAssistantMessage' = n.currentAssistantMessage
    /\ currentContent' = n.currentContent
    /\ aiResponseContainer' = n.aiResponseContainer
    /\ currentIntervention' = n.currentIntervention
    /\ sendButtonDisabled' = n.sendButtonDisabled
    /\ inputDisabled' = n.inputDisabled
    /\ sendText' = n.sendText
    /\ status' = n.status
    /\ notification' = n.notification
    /\ panelShown' = n.panelShown
    /\ es' = n.es
    /\ elems' = n.elems
    /\ doc' = n.doc
    /\ pending' = n.pending

\* The step just taken: the operation, the transport and frame it handled, and
\* how the call ended ("ok", "rejected" by a guard, "threw").
Last(op, t, ev, outcome) == [op |-> op, t |-> t, ev |-> ev, outcome |-> outcome]

NoEvent == [type |-> "none", content |-> "x"]

\* The checkbox and the name a form submission read, in the place of the frame.
Filled(correct, name) ==
    [type |-> IF correct THEN "checked" ELSE "unchecked", content |-> name]

\* The text a user action read from its input box, in the place of the frame.
Typed(text) == [type |-> "input", content |-> text]

\* The transport a call opened, 0 when it opened none.
Opened(s, n) == IF Len(n.es) > Len(s.es) THEN Len(n.es) ELSE 0

\* ------------------------------------------------------------- thread ids
\* initThreadId: `${prefix}_${Date.now()}_${Math.random()...}`.  The clock never
\* runs backwards; the random suffix is any value of its range.
initThreadId(ts, rnd) == <<ts, rnd>>

\* ================================================== HumanLoopApp (inline reply)
HL_addMessage(s, role, kids) ==
    LET id == NewId(s)
        s1 == CreateElement(s, role, kids)
    IN [s1 EXCEPT !.doc = Append(@, id)]

HL_resetInterventionState(s) ==
    [s EXCEPT !.isWaitingForHumanInput = FALSE,
              !.currentIntervention = "none",
              !.sendText = "send"]

HL_resetConversation(s, ts, rnd) ==
    LET s1 == [s EXCEPT !.threadId = initThreadId(ts, rnd), !.now = ts, !.doc = <<>>]
        s2 == HL_resetInterventionState(s1)
    IN [s2 EXCEPT !.status = "ready", !.notification = "new_conversation"]

\* The section a tool_result or the first content after tool activity opens.
OpenSection(s, contentDiv) ==
    LET id == NewId(s)
        s1 == CreateElement(s, "ai-response-content", <<>>)
        s2 == AppendChild(s1, contentDiv, Node("ai-response-section", <<>>, id))
    IN [s2 EXCEPT !.aiResponseContainer = id]

HL_addAIDecisionInfo(s, msg) ==
    LET s1 == IF HasThinking(s, msg) THEN SetInnerHTML(s, msg, <<>>) ELSE s
    IN AppendChild(s1, msg, Node("ai-decision-info", <<>>, 0))

HL_addToolCallInfo(s, msg) == AppendChild(s, msg, Node("tool-call-info", <<>>, 0))

HL_addToolResultInfo(s, msg) ==
    LET s1 == AppendChild(s, msg, Node("tool-result-info", <<>>, 0))
        s2 == OpenSection(s1, msg)
    IN [s2 EXCEPT !.currentContent = <<>>]

HL_showInterventionInChat(s, query) ==
    LET s1 == [s EXCEPT !.currentIntervention = query, !.isWaitingForHumanInput = TRUE]
        s2 == IF s1.currentAssistantMessage # 0
              THEN [RemoveFromDoc(s1, s1.currentAssistantMessage)
                       EXCEPT !.currentAssistantMessage = 0]
              ELSE s1
        s3 == HL_addMessage(s2, "intervention", Md(<<query>>))
    IN [s3 EXCEPT !.sendText = "reply"]

\* ensureAssistantMessage of the primary stream of transport t
ensureAssistantMessage(s, t) ==
    IF s.currentAssistantMessage = 0
    THEN LET id == NewId(s)
             s1 == HL_addMessage(s, "assistant", <<>>)
         IN [s1 EXCEPT !.currentAssistantMessage = id, !.es[t].contentDiv = id]
    ELSE s

\* The render target of a content frame; 0 when contentDiv is null and the
\* lookup throws a TypeError.  The state returned has the section it may open.
ContentTarget(s, contentDiv) ==
    IF s.aiResponseContainer # 0 THEN [s |-> s, target |-> s.aiResponseContainer]
    ELSE IF contentDiv = 0 THEN [s |-> s, target |-> 0]
    ELSE IF HasToolInfo(s, contentDiv)
         THEN LET s1 == OpenSection(s, contentDiv)
              IN [s |-> s1, target |-> s1.aiResponseContainer]
         ELSE [s |-> s, target |-> contentDiv]

\* streamChatResponse made to start every Turn on a thread of its own.
HL_streamChatResponse_newThread(s, message) ==
    LET s1 == [s EXCEPT !.currentAssistantMessage = 0, !.currentContent = <<>>,
                        !.aiResponseContainer = 0,
                        !.threadId = initThreadId(s.now + 1, 1)]
        s2 == OpenEventSource(s1, NewTransport("primary",
                  Url("chat", s1.threadId, message, "", "", "", ""), 0, 0, <<>>))
    IN [s2 EXCEPT !.currentEventSource = Len(s2.es)]

HL_streamChatResponse(s, message) ==
    LET s1 == [s EXCEPT !.currentAssistantMessage = 0, !.currentContent = <<>>,
                        !.aiResponseContainer = 0]
        s2 == OpenEventSource(s1, NewTransport("primary",
                  Url("chat", s.threadId, message, "", "", "", ""), 0, 0, <<>>))
    IN [s2 EXCEPT !.currentEventSource = Len(s2.es)]

\* es.onmessage of submitHumanResponse; the result is [s, outcome]
HL_resume_onmessage(s, t, ev) ==
    LET tr == s.es[t]
        ok(x) == [s |-> x, outcome |-> "ok"]
    IN CASE ev.type = "malformed" -> [s |-> s, outcome |-> "threw"]
         [] ev.type = "content" ->
              LET ct == ContentTarget(s, tr.contentDiv)
                  buf == tr.contentBuf \o <<ev.content>>
                  s1 == [ct.s EXCEPT !.es[t].contentBuf = buf]
              IN ok(SetInnerHTML(s1, ct.target, Md(buf)))
         [] ev.type = "ai_decision" -> ok(HL_addAIDecisionInfo(s, tr.assistantMsg))
         [] ev.type = "tool_call" -> ok(HL_addToolCallInfo(s, tr.assistantMsg))
         [] ev.type = "tool_result" -> ok(HL_addToolResultInfo(s, tr.assistantMsg))
         [] ev.type = "intervention_required" ->
              LET s1 == HL_showInterventionInChat(Close(s, t), "query")
              IN ok([s1 EXCEPT !.status = "intervention"])
         [] ev.type = "end" ->
              ok([Close(s, t) EXCEPT !.status = "ready", !.isProcessing = FALSE,
                                     !.sendButtonDisabled = FALSE,
                                     !.notification = "assist_done"])
         [] ev.type = "error" ->
              ok([Close(s, t) EXCEPT !.status = "error", !.notification = "alert_error"])
         [] OTHER -> ok(s)

HL_resume_onerror(s, t) == [Close(s, t) EXCEPT !.status = "error"]

HL_submitHumanResponse(s, response) ==
    IF response = "" THEN [s EXCEPT !.notification = "need_response"]
    ELSE LET s1 == HL_addMessage(s, "user", Md(<<"expert", response>>))
             s2 == HL_resetInterventionState(s1)
             s3 == [s2 EXCEPT !.status = "processing", !.isProcessing = TRUE,
                              !.sendButtonDisabled = TRUE]
             msg == NewId(s3)
             s4 == HL_addMessage(s3, "assistant", Md(<<>>))
             s5 == OpenEventSource(s4, NewTransport("resume",
                       Url("respond", s.threadId, "", response, "", "", ""),
                       msg, msg, <<>>))
         IN SetInnerHTML([s5 EXCEPT !.aiResponseContainer = 0], msg, Md(<<>>))

\* currentEventSource.onmessage of streamChatResponse; the result is [s, outcome]
HL_primary_onmessage(s, t, ev) ==
    LET ok(x) == [s |-> x, outcome |-> "ok"]
        threw(x) == [s |-> x, outcome |-> "threw"]
        e == ensureAssistantMessage(s, t)
        cd == e.es[t].contentDiv
        cur == s.currentEventSource
    IN CASE ev.type = "malformed" -> threw(s)
         [] ev.type = "start" ->
              IF cd = 0 THEN threw(e) ELSE ok(SetInnerHTML(e, cd, <<Thinking>>))
         [] ev.type = "content" ->
              LET ct == ContentTarget(e, cd)
                  txt == ct.s.currentContent \o <<ev.content>>
              IN IF ct.target = 0 THEN threw(e)
                 ELSE ok(SetInnerHTML([ct.s EXCEPT !.currentContent = txt],
                                      ct.target, Md(txt)))
         [] ev.type = "ai_decision" ->
              ok(HL_addAIDecisionInfo(e, e.currentAssistantMessage))
         [] ev.type = "tool_call" ->
              ok(HL_addToolCallInfo(e, e.currentAssistantMessage))
         [] ev.type = "tool_result" ->
              ok(HL_addToolResultInfo(e, e.currentAssistantMessage))
         [] ev.type = "end" ->
              ok([Close(s, cur) EXCEPT !.status = "ready", !.isProcessing = FALSE,
                                       !.sendButtonDisabled = FALSE])
         [] ev.type = "intervention_required" ->
              LET s1 == HL_showInterventionInChat(Close(s, cur), "query")
              IN ok([s1 EXCEPT !.status = "intervention", !.isProcessing = FALSE,
                               !.sendButtonDisabled = FALSE])
         [] ev.type = "error" ->
              IF cd = 0 THEN threw(Close(e, cur))
              ELSE ok([Close(SetInnerHTML(e, cd, ErrorP("E")), cur)
                         EXCEPT !.status = "error", !.isProcessing = FALSE,
                                !.sendButtonDisabled = FALSE])
         [] OTHER -> ok(s)

HL_primary_onerror(s, t) ==
    LET s1 == [Close(s, s.currentEventSource)
                 EXCEPT !.status = "error", !.isProcessing = FALSE,
                        !.sendButtonDisabled = FALSE]
    IN IF s1.currentAssistantMessage = 0 \/ s1.currentContent = <<>>
       THEN HL_addMessage(s1, "assistant", Md(<<"connection_failed">>))
       ELSE s1

\* sendMessage without its isProcessing guard.
HL_sendMessage_unguarded(s, message) ==
    IF message = "" THEN [s |-> s, outcome |-> "rejected"]
    ELSE IF s.isWaitingForHumanInput
         THEN [s |-> HL_submitHumanResponse(s, message), outcome |-> "ok"]
    ELSE LET s1 == [s EXCEPT !.isProcessing = TRUE, !.status = "thinking",
                             !.sendButtonDisabled = TRUE]
             s2 == HL_addMessage(s1, "user", Md(<<message>>))
         IN [s |-> HL_streamChatResponse(s2, message), outcome |-> "ok"]

\* sendMessage; the result is [s, outcome]
HL_sendMessage(s, message) ==
    IF message = "" \/ s.isProcessing THEN [s |-> s, outcome |-> "rejected"]
    ELSE IF s.isWaitingForHumanInput
         THEN [s |-> HL_submitHumanResponse(s, message), outcome |-> "ok"]
    ELSE LET s1 == [s EXCEPT !.isProcessing = TRUE, !.status = "thinking",
                             !.sendButtonDisabled = TRUE]
             s2 == HL_addMessage(s1, "user", Md(<<message>>))
         IN [s |-> HL_streamChatResponse(s2, message), outcome |-> "ok"]

\* ================================================ HumanLoopPanel (panel reply)
\* The second HumanLoopApp class.  Its reply form sits in the intervention panel,
\* which showInterventionPanel displays and hideInterventionPanel hides.
HP_showInterventionPanel(s, query) ==
    HL_addMessage([s EXCEPT !.currentIntervention = query, !.panelShown = TRUE],
                  "assistant", Md(<<"need_expert", query>>))

HP_hideInterventionPanel(s) == [s EXCEPT !.panelShown = FALSE]

HP_cancelInterventionPanel(s) ==
    HL_addMessage([HP_hideInterventionPanel(s) EXCEPT !.status = "ready"],
                  "assistant", Md(<<"cancelled">>))

HP_resetConversation(s, ts, rnd) ==
    LET s1 == [s EXCEPT !.threadId = initThreadId(ts, rnd), !.now = ts, !.doc = <<>>]
    IN [HP_hideInterventionPanel(s1)
          EXCEPT !.status = "ready", !.notification = "new_conversation"]

HP_streamChatResponse(s, message) ==
    LET s1 == [s EXCEPT !.currentAssistantMessage = 0, !.currentContent = <<>>]
        s2 == OpenEventSource(s1, NewTransport("primary",
                  Url("chat", s.threadId, message, "", "", "", ""), 0, 0, <<>>))
    IN [s2 EXCEPT !.currentEventSource = Len(s2.es)]

HP_sendMessage(s, message) ==
    IF message = "" \/ s.isProcessing THEN [s |-> s, outcome |-> "rejected"]
    ELSE LET s1 == [s EXCEPT !.isProcessing = TRUE, !.status = "thinking",
                             !.sendButtonDisabled = TRUE]
             s2 == HL_addMessage(s1, "user", Md(<<message>>))
         IN [s |-> HP_streamChatResponse(s2, message), outcome |-> "ok"]

HP_primary_onmessage(s, t, ev) ==
    LET ok(x) == [s |-> x, outcome |-> "ok"]
        threw(x) == [s |-> x, outcome |-> "threw"]
        e == ensureAssistantMessage(s, t)
        cd == e.es[t].contentDiv
        cur == s.currentEventSource
    IN CASE ev.type = "malformed" -> threw(s)
         [] ev.type = "start" ->
              IF cd = 0 THEN threw(e) ELSE ok(SetInnerHTML(e, cd, <<Thinking>>))
         [] ev.type = "content" ->
              LET txt == e.currentContent \o <<ev.content>>
              IN IF cd = 0 THEN threw([e EXCEPT !.currentContent = txt])
                 ELSE ok(SetInnerHTML([e EXCEPT !.currentContent = txt], cd, Md(txt)))
         [] ev.type = "end" ->
              ok([Close(s, cur) EXCEPT !.status = "ready", !.isProcessing = FALSE,
                                       !.sendButtonDisabled = FALSE])
         [] ev.type = "intervention_required" ->
              LET s1 == HP_showInterventionPanel(Close(s, cur), "query")
              IN ok([s1 EXCEPT !.status = "intervention", !.isProcessing = FALSE,
                               !.sendButtonDisabled = FALSE])
         [] ev.type = "error" ->
              IF cd = 0 THEN threw(Close(e, cur))
              ELSE ok([Close(SetInnerHTML(e, cd, ErrorP("E")), cur)
                         EXCEPT !.status = "error", !.isProcessing = FALSE,
                                !.sendButtonDisabled = FALSE])
         [] OTHER -> ok(s)

HP_primary_onerror(s, t) ==
    LET s1 == [Close(s, s.currentEventSource)
                 EXCEPT !.status = "error", !.isProcessing = FALSE,
                        !.sendButtonDisabled = FALSE]
    IN IF s1.currentAssistantMessage = 0 \/ s1.currentContent = <<>>
       THEN HL_addMessage(s1, "assistant", Md(<<"connection_failed">>))
       ELSE s1

\* submitHumanResponse of the panel; response is the trimmed text of the panel's
\* textarea.  The result is [s, outcome].
HP_submitHumanResponse(s, response) ==
    IF response = ""
    THEN [s |-> [s EXCEPT !.notification = "alert_need_response"], outcome |-> "rejected"]
    ELSE LET s1 == [s EXCEPT !.status = "processing"]
             msg == NewId(s1)
             buf == <<"expert_reply">>
             s2 == HL_addMessage(s1, "assistant", Md(<<>>))
             s3 == OpenEventSource(s2, NewTransport("resume",
                       Url("respond", s.threadId, "", response, "", "", ""),
                       msg, msg, buf))
         IN [s |-> SetInnerHTML(s3, msg, Md(buf)), outcome |-> "ok"]

HP_resume_onmessage(s, t, ev) ==
    LET tr == s.es[t]
        ok(x) == [s |-> x, outcome |-> "ok"]
    IN CASE ev.type = "malformed" -> [s |-> s, outcome |-> "threw"]
         [] ev.type = "content" ->
              LET buf == tr.contentBuf \o <<ev.content>>
              IN ok(SetInnerHTML([s EXCEPT !.es[t].contentBuf = buf],
                                 tr.contentDiv, Md(buf)))
         [] ev.type = "intervention_required" ->
              ok([HP_showInterventionPanel(Close(s, t), "query")
                    EXCEPT !.status = "intervention"])
         [] ev.type = "end" ->
              ok([HP_hideInterventionPanel(Close(s, t))
                    EXCEPT !.status = "ready", !.notification = "assist_done"])
         [] ev.type = "error" ->
              ok([Close(s, t) EXCEPT !.status = "error", !.notification = "alert_error"])
         [] OTHER -> ok(s)

HP_resume_onerror(s, t) == [Close(s, t) EXCEPT !.status = "error"]

\* ========================================================== CustomizeStateApp
\* submitInterventionForm is bound to the submit button of the intervention
\* panel.  Only openInterventionPanel displays the panel, and its one call
\* follows a call of showInterventionInChat, which this class does not define:
\* the panel is never displayed, and its buttons are no actions here.
CS_addToolRunningInfo(s, msg) == AppendChild(s, msg, Node("tool-running-info", <<>>, 0))

\* showInterventionInline: the form is a message of its own, with its submit
\* button enabled; nothing already in the conversation is removed.
CS_showInterventionInline(s) ==
    LET s1 == [s EXCEPT !.isWaitingForHumanInput = TRUE, !.currentIntervention = "query"]
    IN HL_addMessage(s1, "intervention", Md(<<"query">>))

CS_streamChat(s, message) ==
    LET s1 == [s EXCEPT !.currentAssistantMessage = 0, !.currentContent = <<>>,
                        !.aiResponseContainer = 0]
        s2 == OpenEventSource(s1, NewTransport("primary",
                  Url("chat", s.threadId, message, "", "", "", ""), 0, 0, <<>>))
    IN [s2 EXCEPT !.currentEventSource = Len(s2.es)]

\* sendMessage.  While waiting for the human it calls this.submitHumanResponse,
\* which CustomizeStateApp does not define: the call throws a TypeError.
CS_sendMessage(s, message) ==
    IF message = "" \/ s.isProcessing THEN [s |-> s, outcome |-> "rejected"]
    ELSE IF s.isWaitingForHumanInput THEN [s |-> s, outcome |-> "threw"]
    ELSE LET s1 == [s EXCEPT !.isProcessing = TRUE, !.status = "thinking",
                             !.sendButtonDisabled = TRUE]
             s2 == HL_addMessage(s1, "user", Md(<<message>>))
         IN [s |-> CS_streamChat(s2, message), outcome |-> "ok"]

CS_primary_onmessage(s, t, ev) ==
    LET ok(x) == [s |-> x, outcome |-> "ok"]
        threw(x) == [s |-> x, outcome |-> "threw"]
        e == ensureAssistantMessage(s, t)
        cd == e.es[t].contentDiv
        cur == s.currentEventSource
    IN CASE ev.type = "malformed" -> threw(s)
         [] ev.type = "start" ->
              IF cd = 0 THEN threw(e) ELSE ok(SetInnerHTML(e, cd, <<Thinking>>))
         [] ev.type = "content" ->
              LET ct == ContentTarget(e, cd)
                  txt == ct.s.currentContent \o <<ev.content>>
              IN IF ct.target = 0 THEN threw(e)
                 ELSE ok(SetInnerHTML([ct.s EXCEPT !.currentContent = txt],
                                      ct.target, Md(txt)))
         [] ev.type = "ai_decision" ->
              ok(HL_addAIDecisionInfo(e, e.currentAssistantMessage))
         [] ev.type = "tool_running" ->
              ok(CS_addToolRunningInfo(e, e.currentAssistantMessage))
         [] ev.type = "tool_call" ->
              ok(HL_addToolCallInfo(e, e.currentAssistantMessage))
         [] ev.type = "tool_result" ->
              ok(HL_addToolResultInfo(e, e.currentAssistantMessage))
         [] ev.type = "intervention_required" ->
              LET s1 == CS_showInterventionInline(Close(s, cur))
              IN ok([s1 EXCEPT !.status = "intervention", !.isProcessing = FALSE,
                               !.sendButtonDisabled = FALSE])
         [] ev.type = "end" ->
              ok([Close(s, cur) EXCEPT !.status = "ready", !.isProcessing = FALSE,
                                       !.sendButtonDisabled = FALSE])
         [] ev.type = "error" ->
              IF cd = 0 THEN threw(Close(e, cur))
              ELSE ok([Close(SetInnerHTML(e, cd, ErrorP("E")), cur)
                         EXCEPT !.status = "error", !.isProcessing = FALSE,
                                !.sendButtonDisabled = FALSE])
         [] OTHER -> ok(s)

CS_primary_onerror(s, t) ==
    LET s1 == [Close(s, s.currentEventSource)
                 EXCEPT !.status = "error", !.isProcessing = FALSE,
                        !.sendButtonDisabled = FALSE]
    IN IF s1.currentAssistantMessage = 0 \/ s1.currentContent = <<>>
       THEN HL_addMessage(s1, "assistant", Md(<<"connection_failed">>))
       ELSE s1

\* The resumption query string with the overrides kept next to the confirmation.
CS_params_keepOverrides(thread, correct, name, birthday) ==
    Url("respond", thread, "", "", IF correct THEN "y" ELSE "", name, birthday)

\* The query string of the resumption request: `correct` when the confirmation
\* is checked, else the name and birthday that are not empty.
CS_params(thread, correct, name, birthday) ==
    Url("respond", thread, "", "",
        IF correct THEN "y" ELSE "",
        IF correct THEN "" ELSE name,
        IF correct THEN "" ELSE birthday)

\* The query string submitInterventionForm builds from the panel's fields.
CS_formParams(thread, correct, name, birthday) ==
    Url("respond", thread, "", "",
        IF correct THEN "y" ELSE "",
        IF correct THEN "" ELSE name,
        IF correct THEN "" ELSE birthday)

CS_submitInterventionWithParams(s, correct, name, birthday) ==
    LET summary == IF correct THEN <<"confirm">> ELSE <<"modify", name, birthday>>
        s1 == HL_addMessage(s, "user", Md(summary))
        s2 == HL_resetInterventionState(s1)
        s3 == [s2 EXCEPT !.status = "processing", !.isProcessing = TRUE,
                         !.sendButtonDisabled = TRUE]
        msg == NewId(s3)
        s4 == HL_addMessage(s3, "assistant", Md(<<>>))
        s5 == OpenEventSource(s4, NewTransport("resume",
                  CS_params(s.threadId, correct, name, birthday), msg, msg, <<>>))
    IN SetInnerHTML([s5 EXCEPT !.aiResponseContainer = 0], msg, Md(<<>>))

\* The click handler of the inline form f's submit button.
CS_inlineSubmit(s, f, correct, name, birthday) ==
    [CS_submitInterventionWithParams(s, correct, name, birthday)
       EXCEPT !.elems[f].disabled = TRUE]

\* The click handler of the inline form f's cancel button.
CS_inlineCancel(s, f) == HL_resetInterventionState(RemoveFromDoc(s, f))

CS_resume_onmessage(s, t, ev) ==
    LET tr == s.es[t]
        ok(x) == [s |-> x, outcome |-> "ok"]
    IN CASE ev.type = "malformed" -> [s |-> s, outcome |-> "threw"]
         [] ev.type = "content" ->
              LET ct == ContentTarget(s, tr.contentDiv)
                  txt == ct.s.currentContent \o <<ev.content>>
              IN ok(SetInnerHTML([ct.s EXCEPT !.currentContent = txt],
                                 ct.target, Md(txt)))
         [] ev.type = "ai_decision" -> ok(HL_addAIDecisionInfo(s, tr.assistantMsg))
         [] ev.type = "tool_running" -> ok(CS_addToolRunningInfo(s, tr.assistantMsg))
         [] ev.type = "tool_call" -> ok(HL_addToolCallInfo(s, tr.assistantMsg))
         [] ev.type = "tool_result" -> ok(HL_addToolResultInfo(s, tr.assistantMsg))
         [] ev.type = "end" ->
              ok([Close(s, t) EXCEPT !.status = "ready", !.isProcessing = FALSE,
                                     !.sendButtonDisabled = FALSE])
         [] ev.type = "error" ->
              ok([SetInnerHTML(Close(s, t), tr.contentDiv, ErrorP("E"))
                    EXCEPT !.status = "error", !.isProcessing = FALSE,
                           !.sendButtonDisabled = FALSE])
         [] OTHER -> ok(s)

CS_resume_onerror(s, t) ==
    LET s1 == [Close(s, t) EXCEPT !.status = "error", !.isProcessing = FALSE,
                                  !.sendButtonDisabled = FALSE]
    IN IF s1.currentAssistantMessage = 0 \/ s1.currentContent = <<>>
       THEN HL_addMessage(s1, "assistant", Md(<<"connection_failed">>))
       ELSE s1

\* The inline forms on the page whose submit button can still be clicked.
CS_forms(s) == {s.doc[i] : i \in 1..Len(s.doc)}
               \cap {f \in 1..Len(s.elems) : s.elems[f].role = "intervention"}

\* ======================================================= ToolAssistant (threads)
\* setProcessing that leaves the controls as they are.
TA_setProcessing_flagOnly(s, processing) == [s EXCEPT !.isProcessing = processing]

TA_setProcessing(s, processing) ==
    [s EXCEPT !.isProcessing = processing, !.sendButtonDisabled = processing,
              !.inputDisabled = processing]

\* Removes every assistant message that shows nothing but the thinking text.
TA_cleanupEmptyAssistantMessages(s) ==
    [s EXCEPT !.doc = SelectSeq(@, LAMBDA m :
        ~(s.elems[m].role = "assistant" /\ s.elems[m].kids = <<Thinking>>))]

\* The synchronous body of streamResponse.
TA_streamResponse(s, message) ==
    LET s1 == [TA_cleanupEmptyAssistantMessages(s)
                 EXCEPT !.currentAssistantMessage = 0, !.currentContent = <<>>,
                        !.aiResponseContainer = 0]
        s2 == OpenEventSource(s1, NewTransport("primary",
                  Url("tool", s.threadId, message, "", "", "", ""), 0, 0, <<>>))
    IN [s2 EXCEPT !.currentEventSource = Len(s2.es)]

\* sendMessage up to its await; the finally block runs as the next microtask.
TA_sendMessage(s, message) ==
    IF message = "" \/ s.isProcessing THEN [s |-> s, outcome |-> "rejected"]
    ELSE LET s1 == HL_addMessage(s, "user", Md(<<message>>))
             s2 == TA_streamResponse(TA_setProcessing(s1, TRUE), message)
         IN [s |-> [s2 EXCEPT !.pending = "finally"], outcome |-> "ok"]

\* finally { this.setProcessing(false) }
TA_finally(s) == [TA_setProcessing(s, FALSE) EXCEPT !.pending = "none"]

\* currentEventSource.onmessage; no try/catch surrounds it, "threw" is an
\* uncaught exception that ends the handler where it was raised.
TA_onmessage(s, t, ev) ==
    LET ok(x) == [s |-> x, outcome |-> "ok"]
        threw(x) == [s |-> x, outcome |-> "threw"]
        e == ensureAssistantMessage(s, t)
        cd == e.es[t].contentDiv
    IN CASE ev.type = "malformed" -> threw(s)
         [] ev.type = "start" ->
              IF cd = 0 THEN threw(e) ELSE ok(SetInnerHTML(e, cd, <<Thinking>>))
         [] ev.type = "ai_decision" ->
              ok(HL_addAIDecisionInfo(e, e.currentAssistantMessage))
         [] ev.type = "tool_call" ->
              ok(HL_addToolCallInfo(e, e.currentAssistantMessage))
         [] ev.type = "tool_result" ->
              ok(HL_addToolResultInfo(e, e.currentAssistantMessage))
         [] ev.type = "content" ->
              LET ct == ContentTarget(e, cd)
                  txt == ct.s.currentContent \o <<ev.content>>
              IN IF ct.target = 0 THEN threw(e)
                 ELSE ok(SetInnerHTML([ct.s EXCEPT !.currentContent = txt],
                                      ct.target, Md(txt)))
         [] ev.type = "end" ->
              ok(TA_cleanupEmptyAssistantMessages(
                   TA_setProcessing(Close(s, s.currentEventSource), FALSE)))
         [] ev.type = "error" ->
              IF cd = 0 THEN threw(e)
              ELSE ok(TA_setProcessing(
                        Close(SetInnerHTML(e, cd, ErrorP("E")), e.currentEventSource),
                        FALSE))
         [] OTHER -> ok(s)

TA_onerror(s, t) ==
    LET s1 == TA_setProcessing(Close(s, s.currentEventSource), FALSE)
    IN IF s1.currentAssistantMessage = 0 \/ s1.currentContent = <<>>
       THEN HL_addMessage(s1, "assistant", Md(<<"connection_failed">>))
       ELSE s1

\* ================================================= ToolAssistantV1 (no threads)
\* addMessage: the text sits in a <p> of the message's content.
TV_addMessage(s, role, kids) ==
    LET para == NewId(s)
        s1 == CreateElement(s, "p", kids)
        msg == NewId(s1)
        s2 == CreateElement(s1, role, <<Node("p", <<>>, para)>>)
    IN [s2 EXCEPT !.doc = Append(@, msg)]

TV_addToolInfo(s, msg) == AppendChild(s, msg, Node("tool-info", <<>>, 0))

TV_showToolStatus(s) == [s EXCEPT !.status = "tool_status"]

TV_hideToolStatus(s) == [s EXCEPT !.status = "hidden"]

\* The closure's toolsUsed is written and never read; it is left out.
TV_streamResponse(s, message) ==
    LET para == NewId(s)
        s1 == TV_addMessage(s, "assistant", <<Thinking>>)
        s2 == OpenEventSource(s1, NewTransport("primary",
                  Url("tool", <<>>, message, "", "", "", ""), para + 1, para, <<>>))
    IN [s2 EXCEPT !.currentEventSource = Len(s2.es)]

TV_sendMessage(s, message) ==
    IF message = "" \/ s.isProcessing THEN [s |-> s, outcome |-> "rejected"]
    ELSE LET s1 == TV_addMessage(s, "user", Md(<<message>>))
             s2 == TV_streamResponse(TA_setProcessing(s1, TRUE), message)
         IN [s |-> [s2 EXCEPT !.pending = "finally"], outcome |-> "ok"]

\* currentEventSource.onmessage.  this.currentEventSource.close() throws when
\* the field is null; the catch around the handler swallows it.
TV_onmessage(s, t, ev) ==
    LET tr == s.es[t]
        ok(x) == [s |-> x, outcome |-> "ok"]
        threw(x) == [s |-> x, outcome |-> "threw"]
        cur == s.currentEventSource
    IN CASE ev.type = "malformed" -> threw(s)
         [] ev.type = "tool_status" -> ok(TV_showToolStatus(s))
         [] ev.type = "tool_call" -> ok(TV_addToolInfo(s, tr.assistantMsg))
         [] ev.type = "content" ->
              LET s1 == IF tr.hasContent THEN s
                        ELSE [SetInnerHTML(s, tr.contentDiv, <<>>)
                                EXCEPT !.es[t].hasContent = TRUE,
                                       !.currentContent = <<>>]
                  txt == s1.currentContent \o <<ev.content>>
              IN ok(SetInnerHTML([s1 EXCEPT !.currentContent = txt],
                                 tr.contentDiv, Md(txt)))
         [] ev.type = "complete" ->
              LET s1 == TV_hideToolStatus(s)
                  s2 == [Close(s1, cur) EXCEPT !.currentEventSource = 0]
              IN IF cur = 0 THEN threw(s1)
                 ELSE IF tr.hasContent THEN ok(s2)
                 ELSE ok(SetInnerHTML(s2, tr.contentDiv,
                                      <<Node("text", <<"no_content">>, 0)>>))
         [] ev.type = "error" ->
              LET s1 == SetInnerHTML(TV_hideToolStatus(s), tr.contentDiv,
                                     <<Node("text", <<"E">>, 0)>>)
              IN IF cur = 0 THEN threw(s1)
                 ELSE ok([Close(s1, cur) EXCEPT !.currentEventSource = 0])
         [] OTHER -> ok(s)

TV_onerror(s, t) ==
    LET tr == s.es[t]
        s1 == TV_hideToolStatus(s)
        s2 == IF tr.hasContent THEN s1
              ELSE SetInnerHTML(s1, tr.contentDiv,
                                <<Node("text", <<"connection_error">>, 0)>>)
    IN IF s2.currentEventSource # 0
       THEN [Close(s2, s2.currentEventSource) EXCEPT !.currentEventSource = 0]
       ELSE s2

\* ===================================================================== ChatApp
\* isStreaming, currentBotMessage and currentBotContent are held in
\* isProcessing, currentAssistantMessage and currentContent; status is the
\* loading indicator.  A message's <p> is its element; of its classes only
\* error-message is kept (streaming-text is styling).
Chat_addMessage(s, role, content) ==
    HL_addMessage(s, role,
                  IF content = "" THEN <<>> ELSE <<Node("text", <<content>>, 0)>>)

Chat_finishStreaming(s) ==
    LET m == s.currentAssistantMessage
        s1 == [s EXCEPT !.isProcessing = FALSE, !.sendButtonDisabled = FALSE,
                        !.status = "ready"]
        s2 == IF m # 0 /\ s1.elems[m].kids = <<>>
              THEN SetInnerHTML(s1, m, ErrorP("sorry"))
              ELSE s1
    IN [s2 EXCEPT !.currentAssistantMessage = 0, !.currentContent = <<>>]

Chat_handleStreamError(s, errorMessage) ==
    Chat_finishStreaming(
        IF s.currentAssistantMessage # 0
        THEN SetInnerHTML(s, s.currentAssistantMessage, ErrorP(errorMessage))
        ELSE s)

\* handleStreamData with the default case treated as the error case.
Chat_handleStreamData_strict(s, t, ev) ==
    CASE ev.type = "content" ->
           LET txt == s.currentContent \o <<ev.content>>
           IN SetInnerHTML([s EXCEPT !.currentContent = txt],
                           s.es[t].contentDiv, Md(txt))
      [] ev.type = "end" -> Chat_finishStreaming(s)
      [] ev.type \in {"start", "metadata"} -> s
      [] OTHER -> Chat_handleStreamError(s, "E")

Chat_handleStreamData(s, t, ev) ==
    CASE ev.type = "content" ->
           LET txt == s.currentContent \o <<ev.content>>
           IN SetInnerHTML([s EXCEPT !.currentContent = txt],
                           s.es[t].contentDiv, Md(txt))
      [] ev.type = "end" -> Chat_finishStreaming(s)
      [] ev.type = "error" -> Chat_handleStreamError(s, "E")
      [] OTHER -> s

\* onmessage with a decode failure treated as a failure of the stream.
Chat_onmessage_fatal(s, t, ev) ==
    IF ev.type = "malformed"
    THEN [s |-> Close(Chat_handleStreamError(s, "connection_error"), t),
          outcome |-> "threw"]
    ELSE [s |-> Chat_handleStreamData(s, t, ev), outcome |-> "ok"]

Chat_onmessage(s, t, ev) ==
    IF ev.type = "malformed" THEN [s |-> s, outcome |-> "threw"]
    ELSE [s |-> Chat_handleStreamData(s, t, ev), outcome |-> "ok"]

\* eventSource.onerror, then the 'error' listener registered after it.
Chat_onerror(s, t) ==
    LET s1 == Close(Chat_handleStreamError(s, "connection_error"), t)
    IN Close(Chat_finishStreaming(s1), t)

Chat_streamChatResponse(s, message) ==
    LET s1 == [s EXCEPT !.isProcessing = TRUE, !.sendButtonDisabled = TRUE,
                        !.status = "loading", !.currentContent = <<>>]
        msg == NewId(s1)
        s2 == [Chat_addMessage(s1, "bot", "") EXCEPT !.currentAssistantMessage = msg]
    IN OpenEventSource(s2, NewTransport("primary",
           Url("chat", <<>>, message, "", "", "", ""), msg, msg, <<>>))

Chat_sendMessage(s, message) ==
    IF message = "" \/ s.isProcessing THEN [s |-> s, outcome |-> "rejected"]
    ELSE [s |-> Chat_streamChatResponse(Chat_addMessage(s, "user", message), message),
          outcome |-> "ok"]

\* The frames a journal keeps: the start frame, text fragments, tool
\* notifications and the frames that end a Turn.
Journal == {"start", "content", "ai_decision", "tool_call", "tool_running",
            "tool_result", "end", "complete", "error", "intervention_required"}

\* renderMarkdownContent(targetContainer, text): the element whose content the
\* step replaced by rendered text; 0 when the step rendered nothing.
RenderTarget ==
    LET before(el) == IF el <= Len(elems) THEN elems[el].kids ELSE <<>>
        written == {el \in 1..Len(elems') :
                      /\ elems'[el].kids # before(el)
                      /\ Len(elems'[el].kids) = 1
                      /\ elems'[el].kids[1].t = "md"}
    IN IF written = {} THEN 0 ELSE CHOOSE el \in written : TRUE

\* hist[t] is the journal of transport t: the frames of Journal its onmessage
\* handled without throwing, in order of arrival, a content frame with the
\* element it was rendered into and the text rendered there.
Log ==
    hist' = [t \in 1..Len(es') |->
               IF t > Len(hist) THEN <<>>
               ELSE IF /\ last'.op = "onmessage" /\ last'.t = t
                       /\ last'.outcome = "ok" /\ last'.ev.type \in Journal
                    THEN LET el == IF last'.ev.type = "content" THEN RenderTarget ELSE 0
                         IN Append(hist[t],
                              [type |-> last'.ev.type, content |-> last'.ev.content,
                               target |-> el,
                               text |-> IF el = 0 THEN <<>> ELSE elems'[el].kids[1].v])
                    ELSE hist[t]]

\* ------------------------------------------------------------ the actions
\* A macrotask (a user action, a transport callback) of controller a runs only
\* once the pending microtask has run.
Task(a) == /\ app = a
           /\ pending = "none"
           /\ steps < MaxSteps
           /\ steps' = steps + 1

HumanLoopApp_sendMessage ==
    /\ Task("HumanLoopApp")
    /\ \E message \in Inputs :
         LET r == HL_sendMessage(S, message)
         IN /\ Becomes(r.s)
            /\ last' = Last("sendMessage", Opened(S, r.s), Typed(message), r.outcome)
            /\ Log

HumanLoopApp_resetConversation ==
    /\ Task("HumanLoopApp")
    /\ \E ts \in {now, now + 1}, rnd \in Rnd :
         Becomes(HL_resetConversation(S, ts, rnd))
    /\ last' = Last("resetConversation", 0, NoEvent, "ok")
    /\ Log

HumanLoopApp_onmessage ==
    /\ Task("HumanLoopApp")
    /\ \E t \in OpenTransports(S), ev \in Events(app) :
         LET r == IF es[t].kind = "primary" THEN HL_primary_onmessage(S, t, ev)
                  ELSE HL_resume_onmessage(S, t, ev)
         IN /\ Becomes(r.s)
            /\ last' = Last("onmessage", t, ev, r.outcome)
            /\ Log

HumanLoopApp_onerror ==
    /\ Task("HumanLoopApp")
    /\ \E t \in OpenTransports(S) :
         /\ Becomes(IF es[t].kind = "primary" THEN HL_primary_onerror(S, t)
                    ELSE HL_resume_onerror(S, t))
         /\ last' = Last("onerror", t, NoEvent, "ok")
         /\ Log

HumanLoopPanel_sendMessage ==
    /\ Task("HumanLoopPanel")
    /\ \E message \in Inputs :
         LET r == HP_sendMessage(S, message)
         IN /\ Becomes(r.s)
            /\ last' = Last("sendMessage", Opened(S, r.s), Typed(message), r.outcome)
            /\ Log

HumanLoopPanel_resetConversation ==
    /\ Task("HumanLoopPanel")
    /\ \E ts \in {now, now + 1}, rnd \in Rnd :
         Becomes(HP_resetConversation(S, ts, rnd))
    /\ last' = Last("resetConversation", 0, NoEvent, "ok")
    /\ Log

\* The panel's submit button; it can be clicked while the panel is displayed.
HumanLoopPanel_submitHumanResponse ==
    /\ Task("HumanLoopPanel")
    /\ panelShown
    /\ \E response \in Inputs :
         LET r == HP_submitHumanResponse(S, response)
         IN /\ Becomes(r.s)
            /\ last' = Last("submitHumanResponse", Opened(S, r.s), Typed(response), r.outcome)
            /\ Log

HumanLoopPanel_cancelInterventionPanel ==
    /\ Task("HumanLoopPanel")
    /\ panelShown
    /\ Becomes(HP_cancelInterventionPanel(S))
    /\ last' = Last("cancelInterventionPanel", 0, NoEvent, "ok")
    /\ Log

HumanLoopPanel_onmessage ==
    /\ Task("HumanLoopPanel")
    /\ \E t \in OpenTransports(S), ev \in Events(app) :
         LET r == IF es[t].kind = "primary" THEN HP_primary_onmessage(S, t, ev)
                  ELSE HP_resume_onmessage(S, t, ev)
         IN /\ Becomes(r.s)
            /\ last' = Last("onmessage", t, ev, r.outcome)
            /\ Log

HumanLoopPanel_onerror ==
    /\ Task("HumanLoopPanel")
    /\ \E t \in OpenTransports(S) :
         /\ Becomes(IF es[t].kind = "primary" THEN HP_primary_onerror(S, t)
                    ELSE HP_resume_onerror(S, t))
         /\ last' = Last("onerror", t, NoEvent, "ok")
         /\ Log

CustomizeStateApp_sendMessage ==
    /\ Task("CustomizeStateApp")
    /\ \E message \in Inputs :
         LET r == CS_sendMessage(S, message)
         IN /\ Becomes(r.s)
            /\ last' = Last("sendMessage", Opened(S, r.s), Typed(message), r.outcome)
            /\ Log

CustomizeStateApp_resetConversation ==
    /\ Task("CustomizeStateApp")
    /\ \E ts \in {now, now + 1}, rnd \in Rnd :
         Becomes(HL_resetConversation(S, ts, rnd))
    /\ last' = Last("resetConversation", 0, NoEvent, "ok")
    /\ Log

\* The submit button of an inline form on the page, while it is enabled.
CustomizeStateApp_inlineSubmit ==
    /\ Task("CustomizeStateApp")
    /\ \E f \in CS_forms(S), correct \in BOOLEAN, name \in Inputs, birthday \in Inputs :
         /\ ~elems[f].disabled
         /\ Becomes(CS_inlineSubmit(S, f, correct, name, birthday))
         /\ last' = Last("inlineSubmit", Len(es) + 1, Filled(correct, name), "ok")
         /\ Log

CustomizeStateApp_inlineCancel ==
    /\ Task("CustomizeStateApp")
    /\ \E f \in CS_forms(S) : Becomes(CS_inlineCancel(S, f))
    /\ last' = Last("inlineCancel", 0, NoEvent, "ok")
    /\ Log

CustomizeStateApp_onmessage ==
    /\ Task("CustomizeStateApp")
    /\ \E t \in OpenTransports(S), ev \in Events(app) :
         LET r == IF es[t].kind = "primary" THEN CS_primary_onmessage(S, t, ev)
                  ELSE CS_resume_onmessage(S, t, ev)
         IN /\ Becomes(r.s)
            /\ last' = Last("onmessage", t, ev, r.outcome)
            /\ Log

CustomizeStateApp_onerror ==
    /\ Task("CustomizeStateApp")
    /\ \E t \in OpenTransports(S) :
         /\ Becomes(IF es[t].kind = "primary" THEN CS_primary_onerror(S, t)
                    ELSE CS_resume_onerror(S, t))
         /\ last' = Last("onerror", t, NoEvent, "ok")
         /\ Log

\* The send button and the Enter key of the input box reach sendMessage; a
\* disabled control fires no event.
ToolAssistant_sendMessage ==
    /\ Task("ToolAssistant")
    /\ ~sendButtonDisabled \/ ~inputDisabled
    /\ \E message \in Inputs :
         LET r == TA_sendMessage(S, message)
         IN /\ Becomes(r.s)
            /\ last' = Last("sendMessage", Opened(S, r.s), Typed(message), r.outcome)
            /\ Log

\* The continuation of sendMessage after its await: it runs before any other
\* task.
ToolAssistant_finally ==
    /\ app = "ToolAssistant"
    /\ pending = "finally"
    /\ Becomes(TA_finally(S))
    /\ steps' = steps
    /\ last' = Last("finally", 0, NoEvent, "ok")
    /\ Log

ToolAssistant_onmessage ==
    /\ Task("ToolAssistant")
    /\ \E t \in OpenTransports(S), ev \in Events(app) :
         LET r == TA_onmessage(S, t, ev)
         IN /\ Becomes(r.s)
            /\ last' = Last("onmessage", t, ev, r.outcome)
            /\ Log

ToolAssistant_onerror ==
    /\ Task("ToolAssistant")
    /\ \E t \in OpenTransports(S) :
         /\ Becomes(TA_onerror(S, t))
         /\ last' = Last("onerror", t, NoEvent, "ok")
         /\ Log

ToolAssistantV1_sendMessage ==
    /\ Task("ToolAssistantV1")
    /\ ~sendButtonDisabled \/ ~inputDisabled
    /\ \E message \in Inputs :
         LET r == TV_sendMessage(S, message)
         IN /\ Becomes(r.s)
            /\ last' = Last("sendMessage", Opened(S, r.s), Typed(message), r.outcome)
            /\ Log

ToolAssistantV1_finally ==
    /\ app = "ToolAssistantV1"
    /\ pending = "finally"
    /\ Becomes(TA_finally(S))
    /\ steps' = steps
    /\ last' = Last("finally", 0, NoEvent, "ok")
    /\ Log

ToolAssistantV1_onmessage ==
    /\ Task("ToolAssistantV1")
    /\ \E t \in OpenTransports(S), ev \in Events(app) :
         LET r == TV_onmessage(S, t, ev)
         IN /\ Becomes(r.s)
            /\ last' = Last("onmessage", t, ev, r.outcome)
            /\ Log

ToolAssistantV1_onerror ==
    /\ Task("ToolAssistantV1")
    /\ \E t \in OpenTransports(S) :
         /\ Becomes(TV_onerror(S, t))
         /\ last' = Last("onerror", t, NoEvent, "ok")
         /\ Log

ChatApp_sendMessage ==
    /\ Task("ChatApp")
    /\ \E message \in Inputs :
         LET r == Chat_sendMessage(S, message)
         IN /\ Becomes(r.s)
            /\ last' = Last("sendMessage", Opened(S, r.s), Typed(message), r.outcome)
            /\ Log

ChatApp_onmessage ==
    /\ Task("ChatApp")
    /\ \E t \in OpenTransports(S), ev \in Events(app) :
         LET r == Chat_onmessage(S, t, ev)
         IN /\ Becomes(r.s)
            /\ last' = Last("onmessage", t, ev, r.outcome)
            /\ Log

ChatApp_onerror ==
    /\ Task("ChatApp")
    /\ \E t \in OpenTransports(S) :
         /\ Becomes(Chat_onerror(S, t))
         /\ last' = Last("onerror", t, NoEvent, "ok")
         /\ Log

\* ------------------------------------------------------------------- Init
Init ==
    /\ app \in Apps
    /\ threadId = initThreadId(0, 1)
    /\ now = 0
    /\ isProcessing = FALSE
    /\ isWaitingForHumanInput = FALSE
    /\ currentEventSource = 0
    /\ currentAssistantMessage = 0
    /\ currentContent = <<>>
    /\ aiResponseContainer = 0
    /\ currentIntervention = "none"
    /\ sendButtonDisabled = FALSE
    /\ inputDisabled = FALSE
    /\ sendText = "send"
    /\ status = "ready"
    /\ notification = "none"
    /\ panelShown = FALSE
    /\ es = <<>>
    /\ elems = <<>>
    /\ doc = <<>>
    /\ pending = "none"
    /\ steps = 0
    /\ last = Last("constructor", 0, NoEvent, "ok")
    /\ hist = <<>>

Next ==
    \/ ToolAssistant_sendMessage
    \/ ToolAssistant_finally
    \/ ToolAssistant_onmessage
    \/ ToolAssistant_onerror
    \/ ToolAssistantV1_sendMessage
    \/ ToolAssistantV1_finally
    \/ ToolAssistantV1_onmessage
    \/ ToolAssistantV1_onerror
    \/ HumanLoopApp_sendMessage
    \/ HumanLoopApp_resetConversation
    \/ HumanLoopApp_onmessage
    \/ HumanLoopApp_onerror
    \/ HumanLoopPanel_sendMessage
    \/ HumanLoopPanel_resetConversation
    \/ HumanLoopPanel_submitHumanResponse
    \/ HumanLoopPanel_cancelInterventionPanel
    \/ HumanLoopPanel_onmessage
    \/ HumanLoopPanel_onerror
    \/ CustomizeStateApp_sendMessage
    \/ CustomizeStateApp_resetConversation
    \/ CustomizeStateApp_inlineSubmit
    \/ CustomizeStateApp_inlineCancel
    \/ CustomizeStateApp_onmessage
    \/ CustomizeStateApp_onerror
    \/ ChatApp_sendMessage
    \/ ChatApp_onmessage
    \/ ChatApp_onerror

Spec == Init /\ [][Next]_vars

\* ------------------------------------------------- the fair specification
\* The human-loop controllers under the assumption stated for their Turns:
\* every open transport eventually delivers a terminal frame or fails.
StreamingApps == {"HumanLoopApp", "CustomizeStateApp"}

\* The frames a server ends a stream with.
TerminalFrames == {"end", "error", "intervention_required"}

\* The onmessage callback registered on transport t.
OnMessage(s, t, ev) ==
    CASE s.app = "HumanLoopApp" ->
           IF s.es[t].kind = "primary" THEN HL_primary_onmessage(s, t, ev)
           ELSE HL_resume_onmessage(s, t, ev)
      [] OTHER ->
           IF s.es[t].kind = "primary" THEN CS_primary_onmessage(s, t, ev)
           ELSE CS_resume_onmessage(s, t, ev)

\* The onerror callback registered on transport t.
OnError(s, t) ==
    CASE s.app = "HumanLoopApp" ->
           IF s.es[t].kind = "primary" THEN HL_primary_onerror(s, t)
           ELSE HL_resume_onerror(s, t)
      [] OTHER ->
           IF s.es[t].kind = "primary" THEN CS_primary_onerror(s, t)
           ELSE CS_resume_onerror(s, t)

\* The journal entry of a transport whose stream has come to its end.
Drained == [type |-> "drained", content |-> "x", target |-> 0, text |-> <<>>]

IsDrained(t) == \E i \in 1..Len(hist[t]) : hist[t][i] = Drained

\* The end of a stream: a transport that is open gets its terminal frame, or
\* fails.  The server's last frame is not one of the MaxSteps steps explored.
Drain ==
    /\ app \in StreamingApps
    /\ pending = "none"
    /\ steps' = steps
    /\ \E t \in OpenTransports(S) :
         /\ ~IsDrained(t)
         /\ hist' = [hist EXCEPT ![t] = Append(@, Drained)]
         /\ \/ \E ty \in TerminalFrames :
                 LET ev == [type |-> ty, content |-> "x"]
                     r == OnMessage(S, t, ev)
                 IN /\ Becomes(r.s)
                    /\ last' = Last("onmessage", t, ev, r.outcome)
            \/ /\ Becomes(OnError(S, t))
               /\ last' = Last("onerror", t, NoEvent, "ok")

FairInit == Init /\ app \in StreamingApps

FairNext ==
    \/ steps < MaxFairSteps /\ HumanLoopApp_sendMessage
    \/ steps < MaxFairSteps /\ HumanLoopApp_resetConversation
    \/ steps < MaxFairSteps /\ HumanLoopApp_onmessage
    \/ steps < MaxFairSteps /\ HumanLoopApp_onerror
    \/ steps < MaxFairSteps /\ CustomizeStateApp_sendMessage
    \/ steps < MaxFairSteps /\ CustomizeStateApp_resetConversation
    \/ steps < MaxFairSteps /\ CustomizeStateApp_inlineSubmit
    \/ steps < MaxFairSteps /\ CustomizeStateApp_inlineCancel
    \/ steps < MaxFairSteps /\ CustomizeStateApp_onmessage
    \/ steps < MaxFairSteps /\ CustomizeStateApp_onerror
    \/ Drain

\* No stream stays open for ever without coming to its end.
FairSpec == FairInit /\ [][FairNext]_vars /\ WF_vars(Drain)

\* ================================================================ properties
\* The controllers whose session can wait for a human.
HumanLoopApps == {"HumanLoopApp", "HumanLoopPanel", "CustomizeStateApp"}

\* The step just taken handled frame type ty to its end on a transport.
JustHandled(ty) == last.op = "onmessage" /\ last.ev.type = ty /\ last.outcome = "ok"

\* C1: in HumanLoopApp (both variants) and CustomizeStateApp a sendMessage
\* called while isProcessing is true is a no-op: it opens no transport, records
\* no message, and leaves threadId, the accumulated content, the active
\* segment, the transport handle and isProcessing as they were.
C1_SingleFlight ==
    [][(/\ app \in HumanLoopApps
        /\ isProcessing
        /\ steps' = steps + 1
        /\ last'.op = "sendMessage")
       => /\ es' = es
          /\ doc' = doc
          /\ elems' = elems
          /\ threadId' = threadId
          /\ currentContent' = currentContent
          /\ aiResponseContainer' = aiResponseContainer
          /\ currentAssistantMessage' = currentAssistantMessage
          /\ currentEventSource' = currentEventSource
          /\ isProcessing' = isProcessing]_vars

\* A sendMessage with a text was rejected while a Turn was streaming.
C1_Witness ==
    /\ app \in {"HumanLoopApp", "CustomizeStateApp"}
    /\ last.op = "sendMessage"
    /\ last.ev.content = "q"
    /\ last.outcome = "rejected"
    /\ isProcessing
    /\ OpenTransports(S) # {}

\* C2: in ToolAssistant isProcessing is true for as long as a transport that
\* sendMessage opened is open, that is until its end event, error event or
\* failure has been handled; so no second transport can be opened meanwhile.
C2_ToolAssistantSingleFlight ==
    app \in {"ToolAssistant", "ToolAssistantV1"}
        => /\ OpenTransports(S) # {} => isProcessing
           /\ Cardinality(OpenTransports(S)) <= 1

\* C3: ToolAssistant, both HumanLoopApp variants and CustomizeStateApp have at
\* most one open transport in every reachable state.
C3_AtMostOneOpenTransport ==
    app # "ChatApp" => Cardinality(OpenTransports(S)) <= 1

\* C4: resetConversation, called in any state, leaves the session Idle:
\* isProcessing and isWaitingForHumanInput are both false.
C4_ResetLeavesIdle ==
    last.op = "resetConversation" => ~isProcessing /\ ~isWaitingForHumanInput

\* C5: resetConversation closes every transport open at the call, so that no
\* transport opened before the reset can deliver an event after it.
C5_ResetClosesTransport ==
    last.op = "resetConversation" => OpenTransports(S) = {}

\* C6: once intervention_required has been handled on a primary or resumption
\* transport, that transport is closed (it delivers no further content) and
\* the session awaits the human: isWaitingForHumanInput and not isProcessing.
C6_InterventionSuspends ==
    (app \in {"HumanLoopApp", "CustomizeStateApp"} /\ JustHandled("intervention_required"))
        => /\ ~es[last.t].open
           /\ isWaitingForHumanInput
           /\ ~isProcessing

\* The transport the next human response "q" opens from state s: 0 when the
\* response is not accepted.
NextHumanResponse(s) ==
    CASE s.app = "HumanLoopApp" -> Opened(s, HL_sendMessage(s, "q").s)
      [] s.app = "HumanLoopPanel" ->
           IF s.panelShown THEN Opened(s, HP_submitHumanResponse(s, "q").s) ELSE 0
      [] OTHER ->
           IF \E f \in CS_forms(s) : ~s.elems[f].disabled
           THEN Opened(s, CS_submitInterventionWithParams(s, TRUE, "", ""))
           ELSE 0

\* C7: after a resumption transport has received intervention_required, the
\* next human response is accepted and opens a further resumption transport on
\* the same thread.
C7_ReSuspensionAcceptsResponse ==
    (/\ app \in HumanLoopApps
     /\ last.op = "onmessage"
     /\ last.ev.type = "intervention_required"
     /\ es[last.t].kind = "resume")
        => NextHumanResponse(S) # 0

\* C8: once an end event has been handled on a transport of ToolAssistant,
\* HumanLoopApp, CustomizeStateApp or ChatApp, the transport that delivered it
\* is closed and the session is Idle.
C8_EndClosesAndIdles ==
    (app # "ToolAssistantV1" /\ JustHandled("end"))
        => /\ ~es[last.t].open
           /\ ~isProcessing
           /\ ~isWaitingForHumanInput

\* C9: once an error event has been handled on a primary or resumption
\* transport, the transport is closed and isProcessing is false.
C9_ErrorClosesAndIdles ==
    (app \in {"HumanLoopApp", "CustomizeStateApp"} /\ JustHandled("error"))
        => ~es[last.t].open /\ ~isProcessing

\* C10: once a transport failure (onerror) has been handled on a primary or
\* resumption transport, the transport is closed and isProcessing is false.
C10_FailureClosesAndIdles ==
    (app \in {"HumanLoopApp", "CustomizeStateApp"} /\ last.op = "onerror")
        => ~es[last.t].open /\ ~isProcessing

\* The calls that open a transport for a Turn.
Openers == {"sendMessage", "submitHumanResponse", "inlineSubmit"}

\* C11: when a transport fails (onerror) before any content frame of its Turn
\* has been processed, on a primary or on a resumption transport, a fallback
\* failure message is appended to the conversation.  Stated for the failure
\* that is the first callback of the transport, straight after it was opened.
C11_FailureFallbackMessage ==
    [][(/\ app \in HumanLoopApps
        /\ last.op \in Openers
        /\ last.t # 0
        /\ steps' = steps + 1
        /\ last'.op = "onerror"
        /\ last'.t = last.t)
       => /\ Len(doc') = Len(doc) + 1
          /\ elems'[doc'[Len(doc')]].kids = Md(<<"connection_failed">>)]_vars

\* The state after the human response "q" is submitted in state s by the
\* controller's own means: the input box (inline), the panel, an inline form.
AfterHumanResponse(s) ==
    CASE s.app = "HumanLoopApp" -> HL_sendMessage(s, "q").s
      [] s.app = "HumanLoopPanel" ->
           IF s.panelShown THEN HP_submitHumanResponse(s, "q").s ELSE s
      [] OTHER ->
           IF \E f \in CS_forms(s) : ~s.elems[f].disabled
           THEN CS_submitInterventionWithParams(s, TRUE, "", "")
           ELSE s

\* C12: the resumption transport a human response opens carries the thread id
\* of the transport on which the intervention_required it answers was
\* received, whatever sendMessage, resetConversation and transport events came
\* before.
C12_ResumeOnSameThread ==
    (/\ app \in HumanLoopApps
     /\ JustHandled("intervention_required")
     /\ Opened(S, AfterHumanResponse(S)) # 0)
        => LET n == AfterHumanResponse(S)
           IN /\ n.es[Len(n.es)].kind = "resume"
              /\ n.es[Len(n.es)].url.thread_id = es[last.t].url.thread_id

\* The session awaits the human: the awaiting flag (the displayed panel in the
\* panel variant) is set and no Turn is streaming.
AwaitingHuman ==
    /\ ~isProcessing
    /\ IF app = "HumanLoopPanel" THEN panelShown ELSE isWaitingForHumanInput

\* The step to the primed state submits a human response.
SubmitsResponse ==
    /\ steps' = steps + 1
    /\ last'.outcome = "ok"
    /\ last'.op = CASE app = "HumanLoopApp" -> "sendMessage"
                    [] app = "HumanLoopPanel" -> "submitHumanResponse"
                    [] OTHER -> "inlineSubmit"

\* The human-authored messages of a conversation.
UserMessages(d, e) == {i \in 1..Len(d) : e[d[i]].role = "user"}

\* C13: submitting a human response while AwaitingHuman clears the awaiting
\* flag, records exactly one human-authored message, opens exactly one
\* resumption transport and sets isProcessing, so that sendMessage and further
\* submissions are rejected while that transport is open.
C13_SubmissionStartsStreaming ==
    [][(app \in HumanLoopApps /\ AwaitingHuman /\ SubmitsResponse)
       => /\ ~isWaitingForHumanInput'
          /\ Cardinality(UserMessages(doc', elems')) =
                 Cardinality(UserMessages(doc, elems)) + 1
          /\ Len(es') = Len(es) + 1
          /\ es'[Len(es')].kind = "resume"
          /\ isProcessing']_vars

\* A resumption request that carries the confirmation carries nothing else
\* but the thread id.
ConfirmationAlone(url) ==
    url.correct = "y" => /\ url.name = "" /\ url.birthday = ""
                         /\ url.message = "" /\ url.response = ""

\* C14: for every combination of form values the resumption request built by
\* CustomizeStateApp never carries `correct` together with a `name` or
\* `birthday` override; with the confirmation checked it carries only
\* `correct` and `thread_id`.
C14_ConfirmationExcludesOverrides ==
    /\ \A correct \in BOOLEAN, name \in Inputs, birthday \in Inputs :
         /\ ConfirmationAlone(CS_params(threadId, correct, name, birthday))
         /\ ConfirmationAlone(CS_formParams(threadId, correct, name, birthday))
    /\ app = "CustomizeStateApp"
         => \A t \in 1..Len(es) : es[t].kind = "resume" => ConfirmationAlone(es[t].url)

\* A form was submitted with the confirmation checked and a name filled in.
C14_Witness ==
    /\ app = "CustomizeStateApp"
    /\ last.op = "inlineSubmit"
    /\ last.ev.type = "checked"
    /\ last.ev.content = "q"
    /\ es[last.t].url.correct = "y"
    /\ es[last.t].url.name = ""

\* The payload shapes a resumption request carries: the confirmation flag,
\* correction fields, a free-text response.
PayloadShapes(url) ==
    {sh \in {"confirmation", "correction", "response"} :
        \/ sh = "confirmation" /\ url.correct = "y"
        \/ sh = "correction" /\ (url.name # "" \/ url.birthday # "")
        \/ sh = "response" /\ url.response # ""}

\* C15: every resumption request opened by submitInterventionWithParams or
\* submitHumanResponse carries exactly one payload shape: the confirmation
\* flag, or at least one correction field, or a non-empty free-text response.
C15_ExactlyOnePayloadShape ==
    app \in HumanLoopApps
        => \A t \in 1..Len(es) :
             es[t].kind = "resume" => Cardinality(PayloadShapes(es[t].url)) = 1

\* SessionState read off the flags; "none" when a Turn is streaming and the
\* session awaits the human at once.
SessionState(processing, waiting) ==
    CASE processing /\ waiting -> "none"
      [] processing -> "Streaming"
      [] waiting -> "AwaitingHuman"
      [] OTHER -> "Idle"

\* C16: SessionState changes only from Idle to Streaming at a turn start, from
\* Streaming to Idle on end, error or transport failure, from Streaming to
\* AwaitingHuman on intervention_required and from AwaitingHuman to Streaming
\* on the submission of a human response; a reset leads to Idle.
C16_SessionStateEdges ==
    [][(app \in HumanLoopApps /\ steps' = steps + 1)
       => LET waits(w, p) == IF app = "HumanLoopPanel" THEN p ELSE w
              a == SessionState(isProcessing, waits(isWaitingForHumanInput, panelShown))
              b == SessionState(isProcessing', waits(isWaitingForHumanInput', panelShown'))
              frame == IF last'.op = "onmessage" THEN last'.ev.type ELSE "none"
          IN IF last'.op = "resetConversation" THEN b = "Idle"
             ELSE \/ a = b
                  \/ a = "Idle" /\ b = "Streaming" /\ last'.op = "sendMessage"
                  \/ /\ a = "Streaming" /\ b = "Idle"
                     /\ frame \in {"end", "error"} \/ last'.op = "onerror"
                  \/ /\ a = "Streaming" /\ b = "AwaitingHuman"
                     /\ frame = "intervention_required"
                  \/ a = "AwaitingHuman" /\ b = "Streaming" /\ SubmitsResponse]_vars

ToolFrames == {"ai_decision", "tool_call", "tool_running", "tool_result"}

\* The content frames of a journal h that arrived before its first tool
\* notification, and those that arrived after a tool_result.
BeforeTools(h) ==
    {i \in 1..Len(h) : /\ h[i].type = "content"
                       /\ \A k \in 1..i : h[k].type \notin ToolFrames}

AfterToolResult(h) ==
    {j \in 1..Len(h) : /\ h[j].type = "content"
                       /\ \E k \in 1..j : h[k].type = "tool_result"}

\* C17: within a Turn, content that arrives after a tool_result is rendered
\* into another element than the content that arrived before the first tool
\* notification of the Turn.
C17_FreshSegmentAfterToolResult ==
    \A t \in 1..Len(hist) :
      \A i \in BeforeTools(hist[t]), j \in AfterToolResult(hist[t]) :
        hist[t][i].target # hist[t][j].target

C17_Witness ==
    /\ last.op = "onmessage" /\ last.ev.type = "content" /\ last.outcome = "ok"
    /\ BeforeTools(hist[last.t]) # {}
    /\ Len(hist[last.t]) \in AfterToolResult(hist[last.t])
    /\ hist[last.t][Len(hist[last.t])].target = aiResponseContainer

\* The fragments of a journal's content frames from entry k + 1 to entry j.
FragmentsBetween(h, k, j) ==
    LET frames == SelectSeq(SubSeq(h, k + 1, j), LAMBDA f : f.type = "content")
    IN [i \in 1..Len(frames) |-> frames[i].content]

\* C18: on a primary and on a resumption transport, the text a content frame
\* renders into the section opened after a tool_result is the concatenation,
\* in arrival order, of the fragments received since the latest tool_result,
\* and nothing received before it.
C18_SegmentTextSinceToolResult ==
    \A t \in 1..Len(hist) :
      \A j \in {i \in AfterToolResult(hist[t]) :
                 elems[hist[t][i].target].role = "ai-response-content"} :
        LET h == hist[t]
            k == CHOOSE k \in 1..j :
                   /\ h[k].type = "tool_result"
                   /\ \A m \in (k + 1)..j : h[m].type # "tool_result"
        IN h[j].text = FragmentsBetween(h, k, j)

\* The fragments of the content frames of a journal, up to entry j, that were
\* rendered into the element el.
FragmentsOf(h, j, el) ==
    LET frames == SelectSeq(SubSeq(h, 1, j),
                            LAMBDA f : f.type = "content" /\ f.target = el)
    IN [i \in 1..Len(frames) |-> frames[i].content]

\* C19: whatever the order of content, ai_decision, tool_call, tool_running and
\* tool_result frames in a Turn, the text a content frame renders into its
\* target is made of the fragments rendered into that target, and of no
\* fragment that was rendered into another one.
C19_NoTextOfAnotherSegment ==
    \A t \in 1..Len(hist) :
      \A j \in 1..Len(hist[t]) :
        hist[t][j].type = "content"
          => hist[t][j].text = FragmentsOf(hist[t], j, hist[t][j].target)

\* C20: a Segment is opened only by a content frame that follows tool activity:
\* a step that creates an ai-response-content element handles a content frame,
\* so that no Segment is opened that may never receive content.
C20_SegmentOpenedByContent ==
    [][(\E el \in (Len(elems) + 1)..Len(elems') :
          elems'[el].role = "ai-response-content")
       => last'.op = "onmessage" /\ last'.ev.type = "content"]_vars

\* C21: an ai_decision, tool_call or tool_running frame does not change where
\* content goes: two content frames of a Turn with no tool_result between them
\* are rendered into the same element.
C21_NotificationKeepsRouting ==
    \A t \in 1..Len(hist) :
      \A i, j \in 1..Len(hist[t]) :
        (/\ i < j
         /\ hist[t][i].type = "content" /\ hist[t][j].type = "content"
         /\ \A k \in i..j : hist[t][k].type # "tool_result")
        => hist[t][i].target = hist[t][j].target

\* The notifications an element shows, in order.
NotificationsIn(kids) ==
    SelectSeq(kids, LAMBDA n : n.t \in {"ai-decision-info", "tool-call-info",
                                        "tool-running-info", "tool-result-info"})

\* C22: handling a content frame removes no notification: every element shows
\* after it the notifications it showed before, in the same order.
C22_ContentKeepsNotifications ==
    [][(steps' = steps + 1 /\ last'.op = "onmessage" /\ last'.ev.type = "content")
       => \A el \in 1..Len(elems) :
            NotificationsIn(elems'[el].kids) = NotificationsIn(elems[el].kids)]_vars

\* The messages on the page that show text of a Segment or a notification.
ShowsOutput(d, e) ==
    {m \in {d[i] : i \in 1..Len(d)} :
       \E k \in 1..Len(e[m].kids) :
          e[m].kids[k].t \in {"md", "ai-response-section", "ai-decision-info",
                              "tool-call-info", "tool-running-info",
                              "tool-result-info"}}

\* C23: handling intervention_required removes nothing the Turn displayed:
\* every message that showed text or a notification before the frame is on the
\* page after it, with the same content.
C23_SuspensionKeepsOutput ==
    [][(/\ app \in HumanLoopApps /\ steps' = steps + 1
        /\ last'.op = "onmessage" /\ last'.ev.type = "intervention_required"
        /\ last'.outcome = "ok")
       => \A m \in ShowsOutput(doc, elems) :
            /\ \E i \in 1..Len(doc') : doc'[i] = m
            /\ elems'[m] = elems[m]]_vars

\* C24: a frame whose payload fails to decode changes nothing: the fields of
\* the controller, the page and the journals are as before, and the transport
\* it came on stays open for the frames that follow.
C24_MalformedFrameChangesNothing ==
    [][(steps' = steps + 1 /\ last'.op = "onmessage" /\ last'.ev.type = "malformed")
       => /\ S' = S
          /\ hist' = hist
          /\ es'[last'.t].open]_vars

\* A malformed frame has arrived in a Turn that had rendered text already.
C24_Witness ==
    /\ last.op = "onmessage" /\ last.ev.type = "malformed" /\ last.outcome = "threw"
    /\ es[last.t].open
    /\ \E i \in 1..Len(hist[last.t]) : hist[last.t][i].type = "content"

\* C25: a well-formed frame whose type no case of the handler names is a
\* no-op: isProcessing, isWaitingForHumanInput, threadId, the accumulated
\* content, the page and the transports are as before.
C25_UnknownFrameIsNoOp ==
    [][(steps' = steps + 1 /\ last'.op = "onmessage"
        /\ last'.ev.type \notin Handled(app) \cup {"malformed"})
       => /\ last'.outcome = "ok"
          /\ S' = S
          /\ hist' = hist]_vars

\* An unknown frame has arrived on a stream in the middle of its Turn.
C25_Witness ==
    /\ last.op = "onmessage" /\ last.ev.type = "ping" /\ last.outcome = "ok"
    /\ es[last.t].open /\ isProcessing
    /\ \E i \in 1..Len(hist[last.t]) : hist[last.t][i].type = "content"

\* The frames that end a Turn.
Terminal == {"end", "complete", "error", "intervention_required"}

\* C26: a frame that arrives on a transport whose Turn has handled its
\* terminal frame is ignored: it changes neither the controller's fields nor
\* the page.
C26_FrameAfterTerminalIgnored ==
    [][(/\ steps' = steps + 1 /\ last'.op = "onmessage"
        /\ \E i \in 1..Len(hist[last'.t]) : hist[last'.t][i].type \in Terminal)
       => S' = S]_vars

\* A node that shows failure text.
FailureText(n) ==
    n.t = "error-message" \/ (n.t = "md" /\ n.v = <<"connection_failed">>)

\* C27: a step in which a Turn fails, by an error frame or by a failure of the
\* transport, on the primary or on a resumption transport, puts failure text
\* on the page: in a message that was there, or in one it appends.
C27_FailureTextSurfaced ==
    [][(/\ app \in HumanLoopApps /\ steps' = steps + 1
        /\ \/ last'.op = "onerror"
           \/ last'.op = "onmessage" /\ last'.ev.type = "error")
       => \E i \in 1..Len(doc') :
            LET m == doc'[i]
            IN /\ \E k \in 1..Len(elems'[m].kids) : FailureText(elems'[m].kids[k])
               /\ m > Len(elems) \/ elems'[m].kids # elems[m].kids]_vars

\* C28: resetConversation leaves a thread id that differs from the one held
\* before it and from the thread id of every transport opened earlier in the
\* session.
C28_ResetYieldsFreshThread ==
    [][(app \in HumanLoopApps /\ steps' = steps + 1 /\ last'.op = "resetConversation")
       => /\ threadId' # threadId
          /\ \A t \in 1..Len(es) : es[t].url.thread_id # threadId']_vars

\* The controllers whose requests carry a thread id.
ThreadApps == HumanLoopApps \cup {"ToolAssistant"}

\* C29: only resetConversation changes threadId; sendMessage, the transport
\* callbacks, the submission of a human response and the cancel buttons leave
\* it as it is, and a transport that is opened carries the thread id the
\* controller holds.
C29_OnlyResetChangesThread ==
    [][/\ last'.op # "resetConversation" => threadId' = threadId
       /\ (app \in ThreadApps /\ Len(es') > Len(es))
          => es'[Len(es')].url.thread_id = threadId]_vars

\* A primary and a resumption transport opened on one thread.
C29_Witness ==
    /\ app \in HumanLoopApps
    /\ last.op \in Openers /\ last.t = Len(es) /\ Len(es) >= 2
    /\ es[Len(es)].kind = "resume"
    /\ es[Len(es)].url.thread_id = es[1].url.thread_id
    /\ es[Len(es)].url.thread_id = threadId

\* C30: in the human-loop controllers, when a Turn whose frames were a start
\* frame, if any, and then content fragments gets its end frame while the
\* session is Streaming, the element the Turn rendered into shows the Turn's
\* fragments in their order of arrival and the session is Idle.
C30_PlainTurnRendersAllFragments ==
    [][(/\ app \in HumanLoopApps
        /\ isProcessing /\ ~isWaitingForHumanInput /\ ~panelShown
        /\ steps' = steps + 1 /\ last'.op = "onmessage"
        /\ last'.ev.type = "end" /\ last'.outcome = "ok"
        /\ hist[last'.t] # <<>>
        /\ hist[last'.t][Len(hist[last'.t])].type = "content"
        /\ \A i \in 1..Len(hist[last'.t]) :
              \/ hist[last'.t][i].type = "content"
              \/ i = 1 /\ hist[last'.t][i].type = "start")
       => LET h == hist[last'.t]
              el == h[Len(h)].target
          IN /\ elems'[el].kids = <<Node("md", FragmentsBetween(h, 0, Len(h)), 0)>>
             /\ ~isProcessing' /\ ~isWaitingForHumanInput' /\ ~panelShown']_vars

\* start, two fragments and end have been handled, and the message shows both.
C30_Witness ==
    /\ app \in HumanLoopApps
    /\ JustHandled("end")
    /\ ~isProcessing /\ ~isWaitingForHumanInput /\ ~panelShown
    /\ LET h == hist[last.t]
       IN /\ Len(h) = 4
          /\ h[1].type = "start" /\ h[4].type = "end"
          /\ h[2].type = "content" /\ h[3].type = "content"
          /\ h[2].content # h[3].content
          /\ elems[h[3].target].kids =
               <<Node("md", <<h[2].content, h[3].content>>, 0)>>
          /\ \E i \in 1..Len(doc) : doc[i] = h[3].target

IsPrefix(a, b) == Len(a) <= Len(b) /\ SubSeq(b, 1, Len(a)) = a

\* The texts an element shows as rendered markdown.
RenderedTexts(kids) == {kids[k].v : k \in {i \in 1..Len(kids) : kids[i].t = "md"}}

\* C31: Segment content is append-only: the text an element of a response shows
\* before a start, content or notification frame is a prefix of the text it
\* shows after the frame.
C31_SegmentAppendOnly ==
    [][(/\ app \in ThreadApps /\ steps' = steps + 1
        /\ last'.op = "onmessage"
        /\ last'.ev.type \in {"start", "content"} \cup ToolFrames)
       => \A el \in 1..Len(elems) :
            elems[el].role \in {"assistant", "ai-response-content"}
            => \A v \in RenderedTexts(elems[el].kids) :
                 \E w \in RenderedTexts(elems'[el].kids) : IsPrefix(v, w)]_vars

\* C32: Whenever the session is AwaitingHuman (isWaitingForHumanInput is true),
\* no transport is open, and no step taken while it is AwaitingHuman is the
\* handling of a transport event or of a transport failure.
C32_NoTransportWhileAwaiting ==
    [][(app \in HumanLoopApps /\ steps' = steps + 1)
       => /\ isWaitingForHumanInput' => OpenTransports(S)' = {}
          /\ isWaitingForHumanInput => last'.op \notin {"onmessage", "onerror"}]_vars

\* A resumption Turn was suspended in its turn: the session awaits the human
\* again, and the second transport is closed like the first.
C32_Witness ==
    /\ app \in {"HumanLoopApp", "CustomizeStateApp"} /\ isWaitingForHumanInput
    /\ Len(es) = 2 /\ es[2].kind = "resume" /\ ~es[1].open /\ ~es[2].open
    /\ last.op = "onmessage" /\ last.t = 2 /\ last.ev.type = "intervention_required"

\* C33: in HumanLoopApp and CustomizeStateApp, sendMessage with non-empty text
\* while isWaitingForHumanInput is true and isProcessing is false is treated as
\* the human response: it opens exactly one transport, a resumption transport
\* of the current thread, and starts no primary Turn.
C33_SendWhileAwaitingIsResponse ==
    [][(/\ app \in {"HumanLoopApp", "CustomizeStateApp"}
        /\ isWaitingForHumanInput /\ ~isProcessing
        /\ steps' = steps + 1
        /\ last'.op = "sendMessage" /\ last'.ev.content # "")
       => /\ Len(es') = Len(es) + 1
          /\ es'[Len(es')].kind = "resume"
          /\ es'[Len(es')].url.thread_id = threadId]_vars

\* The response placeholders the step to the primed state created.
NewPlaceholders ==
    {i \in (Len(elems) + 1)..Len(elems') : elems'[i].role = "assistant"}

\* C34: on the primary transport at most one response placeholder is created
\* per Turn: a frame creates at most one, and creates none when an earlier
\* frame of the same transport has created one already.
C34_OnePlaceholderPerTurn ==
    [][(/\ app \in {"HumanLoopApp", "CustomizeStateApp", "ToolAssistant"}
        /\ steps' = steps + 1
        /\ last'.op = "onmessage" /\ es[last'.t].kind = "primary"
        /\ last'.ev.type \in {"start", "content", "error"} \cup ToolFrames)
       => /\ Cardinality(NewPlaceholders) <= 1
          /\ es[last'.t].contentDiv # 0 => NewPlaceholders = {}]_vars

IsSuffix(a, b) == Len(a) <= Len(b) /\ SubSeq(b, Len(b) - Len(a) + 1, Len(b)) = a

\* C35: in CustomizeStateApp the text rendered for a resumption Turn consists
\* only of fragments received on the resumption transport: what a content
\* frame of that transport renders is a tail of the fragments the transport
\* has delivered, the rendered one included, and holds no fragment of the
\* suspended Turn.
C35_ResumptionTextStartsEmpty ==
    [][(/\ app = "CustomizeStateApp" /\ steps' = steps + 1
        /\ last'.op = "onmessage" /\ last'.outcome = "ok"
        /\ last'.ev.type = "content"
        /\ es[last'.t].kind = "resume")
       => LET h == hist'[last'.t]
          IN IsSuffix(h[Len(h)].text, FragmentsBetween(h, 0, Len(h)))]_vars

\* C36: assuming every open transport eventually delivers a terminal frame
\* (end, error, intervention_required) or fails, a session that is Streaming
\* eventually leaves it: isProcessing eventually becomes false again.
C36_StreamingEventuallyEnds == isProcessing ~> ~isProcessing

\* C37: in HumanLoopApp and CustomizeStateApp, isProcessing and
\* isWaitingForHumanInput are never both true.
C37_NotStreamingAndAwaiting ==
    app \in {"HumanLoopApp", "CustomizeStateApp"}
        => ~(isProcessing /\ isWaitingForHumanInput)

\* The transports the step to the primed state closed.
ClosedByStep == {u \in OpenTransports(S) : ~es'[u].open}

\* C38: in ToolAssistant, whenever a handler closes a transport on a terminal
\* event (end or complete, error, or a transport failure), the transport it
\* closes is the one that delivered the event, whatever sendMessage calls and
\* events of earlier transports came before.
C38_ClosesDeliveringTransport ==
    [][(/\ app \in {"ToolAssistant", "ToolAssistantV1"}
        /\ steps' = steps + 1
        /\ \/ last'.op = "onerror"
           \/ last'.op = "onmessage" /\ last'.ev.type \in {"end", "complete", "error"})
       => ClosedByStep \subseteq {last'.t}]_vars

\* Transport t has delivered its end frame.
Ended(t) == \E i \in 1..Len(hist[t]) : hist[t][i].type = "end"

\* C39: in ChatApp, once a Turn has finished (finishStreaming after its end
\* frame) and a new Turn has started, no later event or connection error of
\* the earlier Turn's transport modifies the new Turn: its bot message, its
\* accumulated content and isStreaming stay as they were.
C39_FinishedTurnLeavesNewTurnAlone ==
    [][(/\ app = "ChatApp" /\ steps' = steps + 1
        /\ last'.op \in {"onmessage", "onerror"}
        /\ last'.t < Len(es) /\ Ended(last'.t)
        /\ es[Len(es)].open /\ isProcessing /\ currentAssistantMessage # 0)
       => /\ isProcessing' = isProcessing
          /\ currentContent' = currentContent
          /\ currentAssistantMessage' = currentAssistantMessage
          /\ elems'[currentAssistantMessage] = elems[currentAssistantMessage]]_vars

\* C40: in HumanLoopApp, CustomizeStateApp and ToolAssistant the send control
\* mirrors the guard: after every user action and event handler,
\* sendButton.disabled equals isProcessing.
C40_SendControlMirrorsGuard ==
    app \in {"HumanLoopApp", "CustomizeStateApp", "ToolAssistant"}
        => sendButtonDisabled = isProcessing

\* An inline form has just been submitted: the session is Streaming and the
\* send button is disabled.
C40_Witness ==
    /\ app = "CustomizeStateApp"
    /\ last.op = "inlineSubmit"
    /\ isProcessing /\ sendButtonDisabled

====
